---- MODULE Spec2Model ----
(***************************************************************************)
(* Model of dss-to-cnf: src/dss_to_zarr.py (main), src/utils/dss_tools.py  *)
(* (pathname helpers, custom F-part parser, extraction) and                *)
(* src/utils/aws_tools.py (check_file_exists).                             *)
(*                                                                         *)
(* Python strings are sequences of one-character strings, so that split,   *)
(* replace, lstrip and Path.suffix are computed character by character.    *)
(***************************************************************************)
EXTENDS Integers, Sequences, FiniteSets, TLC

VARIABLES
    f_part, string_part, parser_out,        \* custom_f_part_parser call
    fields, pathname, part, part_out,       \* get_path_part call
    in_pathnames, dedup_out,                \* remove_date call
    pc, params, environ, effects, logged,   \* main
    outcome, failure,
    pattern, out_var,
    tmp_exists, stdout0, stdout,            \* extract_data_from_dss / read_dss_data
    container, pathnames, reads, dss_data

parserVars == <<f_part, string_part, parser_out>>
pathVars == <<fields, pathname, part, part_out>>
dedupVars == <<in_pathnames, dedup_out>>
mainVars == <<pc, params, environ, effects, logged, outcome, failure,
              pattern, out_var, tmp_exists, stdout0, stdout,
              container, pathnames, reads, dss_data>>
vars == <<parserVars, pathVars, dedupVars, mainVars>>

(***************************************************************************)
(* Bounds                                                                  *)
(***************************************************************************)
MaxBodyLen == 4        \* characters of an F part after its optional prefix
MaxPartLen == 2        \* characters of a context / suffix string
MaxDedupPaths == 2     \* pathnames handed to remove_date
MaxContainer == 2      \* records held by a source container

(***************************************************************************)
(* Python str primitives                                                   *)
(***************************************************************************)
RECURSIVE SeqsUpTo(_, _)
SeqsUpTo(alphabet, n) ==
    IF n = 0 THEN {<<>>}
    ELSE LET shorter == SeqsUpTo(alphabet, n - 1)
         IN  shorter \cup {Append(s, c) : s \in shorter, c \in alphabet}

\* s[i:] with a 1-based i
DropTo(s, i) == SubSeq(s, i, Len(s))

\* s.startswith(p)
StartsWith(s, p) == Len(p) <= Len(s) /\ SubSeq(s, 1, Len(p)) = p

\* s.split(sep) for a one-character sep: always at least one part
RECURSIVE SplitFrom(_, _, _, _)
SplitFrom(s, sep, i, cur) ==
    IF i > Len(s) THEN <<cur>>
    ELSE IF s[i] = sep THEN <<cur>> \o SplitFrom(s, sep, i + 1, <<>>)
    ELSE SplitFrom(s, sep, i + 1, Append(cur, s[i]))

Split(s, sep) == SplitFrom(s, sep, 1, <<>>)

\* sep.join(parts)
RECURSIVE Join(_, _)
Join(parts, sep) ==
    IF Len(parts) = 0 THEN <<>>
    ELSE IF Len(parts) = 1 THEN parts[1]
    ELSE parts[1] \o <<sep>> \o Join(Tail(parts), sep)

\* s.replace(old, new): leftmost non-overlapping occurrences; an empty old
\* matches before every character and at the end
RECURSIVE ReplaceFrom(_, _, _, _)
ReplaceFrom(s, old, new, i) ==
    IF Len(old) = 0
    THEN IF i > Len(s) THEN new
         ELSE new \o <<s[i]>> \o ReplaceFrom(s, old, new, i + 1)
    ELSE IF i > Len(s) THEN <<>>
    ELSE IF StartsWith(DropTo(s, i), old)
         THEN new \o ReplaceFrom(s, old, new, i + Len(old))
         ELSE <<s[i]>> \o ReplaceFrom(s, old, new, i + 1)

Replace(s, old, new) == ReplaceFrom(s, old, new, 1)

\* s.lstrip(chars): drops leading characters while they are in the set chars
RECURSIVE Lstrip(_, _)
Lstrip(s, chars) ==
    IF Len(s) > 0 /\ s[1] \in chars THEN Lstrip(Tail(s), chars) ELSE s

\* set of the characters of s
Chars(s) == {s[i] : i \in 1..Len(s)}

\* s.rfind(c), 1-based, 0 when absent
RFind(s, c) ==
    LET hits == {i \in 1..Len(s) : s[i] = c}
    IN  IF hits = {} THEN 0 ELSE CHOOSE i \in hits : \A j \in hits : j <= i

(***************************************************************************)
(* dss_tools.custom_f_part_parser                                          *)
(***************************************************************************)
RUN_PREFIX == <<"R", "U", "N", ":">>

NotCalled == [kind |-> "none", val |-> <<>>, err |-> ""]
Return(v) == [kind |-> "return", val |-> v, err |-> ""]
Raise(cls, e) == [kind |-> cls, val |-> <<>>, err |-> e]

\* f_part.lstrip("RUN:")
StripRun(f) == Lstrip(f, Chars(RUN_PREFIX))

\* mutant: the context comparison runs before the part count
custom_f_part_parser_mismatch_first(f, expected) ==
    LET parts == Split(StripRun(f), "-")
    IN  IF expected # parts[1] THEN Raise("ValueError", "mismatch")
        ELSE IF Len(parts) # 2 THEN Raise("ValueError", "format")
        ELSE Return(parts[2])

custom_f_part_parser(f, expected) ==
    LET parts == Split(StripRun(f), "-")
    IN  IF Len(parts) # 2 THEN Raise("ValueError", "format")
        ELSE IF expected # parts[1] THEN Raise("ValueError", "mismatch")
        ELSE Return(parts[2])

(***************************************************************************)
(* dss_tools.get_path_part                                                 *)
(***************************************************************************)
path_parts == <<"A", "B", "C", "D", "E", "F", "G", "H">>

\* path_parts.index(part), 0-based
PartIndex(p) == (CHOOSE i \in 1..Len(path_parts) : path_parts[i] = p) - 1

\* mutant: position is used without the +1 that skips the leading empty string
get_path_part_off_by_one(pn, p) ==
    IF p \notin Chars(path_parts) THEN Raise("ValueError", "part")
    ELSE LET segs == Split(pn, "/")
             position == PartIndex(p)
         IN  IF position + 1 > Len(segs) THEN Raise("IndexError", "index")
             ELSE Return(Replace(segs[position + 1], <<" ">>, <<"_">>))

\* split("/")[position + 1] is 0-based, hence segs[position + 2] here
get_path_part(pn, p) ==
    IF p \notin Chars(path_parts) THEN Raise("ValueError", "part")
    ELSE LET segs == Split(pn, "/")
             position == PartIndex(p)
         IN  IF position + 2 > Len(segs) THEN Raise("IndexError", "index")
             ELSE Return(Replace(segs[position + 2], <<" ">>, <<"_">>))

(***************************************************************************)
(* dss_tools.remove_date                                                   *)
(***************************************************************************)
\* one loop iteration: pathname.replace(pathname.split("/")[4], "")
StripPartD(pn) == Replace(pn, Split(pn, "/")[5], <<>>)

\* the set built by set(no_part_d_pathnames)
remove_date_set_of(S) == {StripPartD(pn) : pn \in S}

remove_date_set(pns) == remove_date_set_of({pns[i] : i \in 1..Len(pns)})

\* every list(set(...)) ordering
Orderings(S) ==
    {o \in [1..Cardinality(S) -> S] : \A i, j \in 1..Cardinality(S) : o[i] = o[j] => i = j}

(***************************************************************************)
(* aws_tools.check_file_exists: Path(key).suffix                           *)
(***************************************************************************)
DSS_SUFFIX == <<".", "d", "s", "s">>

IsPathComponent(c) == c # <<>> /\ c # <<".">>

\* Path(key).name: the last component; empty and "." components are dropped
PathName(key) ==
    LET comps == SelectSeq(Split(key, "/"), IsPathComponent)
    IN  IF comps = <<>> THEN <<>> ELSE comps[Len(comps)]

\* Path(key).suffix: from the last dot of the name, unless the dot opens or
\* closes the name
PathSuffix(key) ==
    LET name == PathName(key)
        i == RFind(name, ".")
    IN  IF 1 < i /\ i < Len(name) THEN DropTo(name, i) ELSE <<>>

\* mutant: the suffix test is skipped
HasDssSuffix_unchecked(key) == TRUE

HasDssSuffix(key) == PathSuffix(key) = DSS_SUFFIX

(***************************************************************************)
(* dss_to_zarr.main: parameters                                            *)
(***************************************************************************)
\* params.get(k, default)
Get(p, k, default) == IF k \in DOMAIN p THEN p[k] ELSE default

STAGE == <<"S", "T", "A", "G", "E">>
DEFAULT_C_PART == <<"F", "L", "O", "W">>
DEFAULT_SUB_GROUP == <<"s", "u", "b", "_", "g", "r", "o", "u", "p">>

c_part_variable(p) == Get(p, "simplify", DEFAULT_C_PART)
use_custom_parser(p) == Get(p, "use_custom_parser", FALSE)
sub_group_name(p) == Get(p, "sub_group_name", DEFAULT_SUB_GROUP)

\* f"/*/*/{c_part_variable}/*/*/*/"
PathnamePattern(v) ==
    <<"/", "*", "/", "*", "/">> \o v \o <<"/", "*", "/", "*", "/", "*", "/">>

(***************************************************************************)
(* The source container, as the HecDss library shows it                    *)
(***************************************************************************)
\* getPathnameList(pattern): "*" matches any field
FieldMatches(pat, f) == pat = <<"*">> \/ pat = f

PathMatches(pat, pn) ==
    LET pf == Split(pat, "/")
        nf == Split(pn, "/")
    IN  /\ Len(pf) = Len(nf)
        /\ \A i \in 1..Len(pf) : FieldMatches(pf[i], nf[i])

getPathnameList(c, pat) == {r.path : r \in {x \in c : PathMatches(pat, x.path)}}

\* the records a pathname with an empty D part addresses
BlankPartD(pn) ==
    LET f == Split(pn, "/")
    IN  Join([i \in 1..Len(f) |-> IF i = 5 THEN <<>> ELSE f[i]], "/")

RecordsAt(c, pn) == {r \in c : r.path = pn \/ BlankPartD(r.path) = pn}

\* read_ts(pathname).values: the blocks of the series in time order
RECURSIVE BlocksInOrder(_)
BlocksInOrder(rs) ==
    IF rs = {} THEN <<>>
    ELSE LET first == CHOOSE r \in rs : \A o \in rs : r.block <= o.block
         IN  first.values \o BlocksInOrder(rs \ {first})

read_ts(c, pn) == BlocksInOrder(RecordsAt(c, pn))

(***************************************************************************)
(* dss_tools.read_dss_data: the process-wide standard output               *)
(***************************************************************************)
\* sys.stdout once read_dss_data has exited
StdoutAfterRead(ok) == IF ok THEN "__stdout__" ELSE "text_trap"

(***************************************************************************)
(* dss_tools.extract_data_from_dss                                         *)
(***************************************************************************)
\* mutant: the scratch file is removed on the normal return only
TmpfileAfterExit_success_only(failed) == failed

\* the with-block of NamedTemporaryFile(delete=True) closes and unlinks the
\* file however the block is left
TmpfileAfterExit(failed) == FALSE

EmptyDict == <<>>

\* mutant: an existing (event, element) entry is kept
InsertEntry_keep_first(dd, ev, el, data) ==
    LET inner == IF ev \in DOMAIN dd THEN dd[ev] ELSE EmptyDict
    IN  [x \in DOMAIN dd \cup {ev} |->
            IF x = ev
            THEN [y \in DOMAIN inner \cup {el} |->
                     IF y \in DOMAIN inner THEN inner[y] ELSE data]
            ELSE dd[x]]

\* if new_entry not in dss_data: dss_data[new_entry] = {}
\* dss_data[new_entry][b_part] = data
InsertEntry(dd, ev, el, data) ==
    LET inner == IF ev \in DOMAIN dd THEN dd[ev] ELSE EmptyDict
    IN  [x \in DOMAIN dd \cup {ev} |->
            IF x = ev
            THEN [y \in DOMAIN inner \cup {el} |->
                     IF y = el THEN data ELSE inner[y]]
            ELSE dd[x]]

\* new_entry: custom_parser(f_part, parser_string_part) or f_part
ResolveEventKey(custom, f, expected) ==
    IF custom THEN custom_f_part_parser(f, expected) ELSE Return(f)

(***************************************************************************)
(* dss_to_zarr.main: error handling and assembly                           *)
(***************************************************************************)
\* mutant: the custom branch has no try/except either
ExtractHandler_no_catch(custom, cls) == "raised"

\* the except ValueError of the custom branch; the default branch has none
ExtractHandler(custom, cls) ==
    IF custom /\ cls = "ValueError" THEN "returned_none" ELSE "raised"

\* np.array over one event's series needs series of one length, and
\* xr.concat needs at least one event
Ragged(elements) ==
    \E a, b \in DOMAIN elements : Len(elements[a]) # Len(elements[b])

AssemblyFails(dd) == DOMAIN dd = {} \/ \E ev \in DOMAIN dd : Ragged(dd[ev])

(***************************************************************************)
(* Specification of one custom_f_part_parser call                          *)
(***************************************************************************)
BodyAlphabet == {"N", "Y", "E", "-"}
PartAlphabet == {"N", "Y", "E"}

\* F parts with and without the literal prefix
FParts == {pre \o body : pre \in {<<>>, RUN_PREFIX}, body \in SeqsUpTo(BodyAlphabet, MaxBodyLen)}
Contexts == SeqsUpTo(PartAlphabet, MaxPartLen)

ParserIdle == f_part = <<>> /\ string_part = <<>> /\ parser_out = NotCalled
PathIdle == fields = <<>> /\ pathname = <<>> /\ part = "" /\ part_out = NotCalled
DedupIdle == in_pathnames = <<>> /\ dedup_out = [called |-> FALSE, list |-> <<>>]

MainIdle ==
    /\ pc = "idle" /\ params = <<>> /\ environ = {} /\ effects = <<>> /\ logged = <<>>
    /\ outcome = "none" /\ failure = "none" /\ pattern = <<>> /\ out_var = <<>>
    /\ tmp_exists = FALSE /\ stdout0 = "__stdout__" /\ stdout = "__stdout__"
    /\ container = {} /\ pathnames = <<>> /\ reads = <<>> /\ dss_data = <<>>

InitParser ==
    /\ f_part \in FParts
    /\ string_part \in Contexts
    /\ parser_out = NotCalled
    /\ PathIdle /\ DedupIdle /\ MainIdle

CallParser ==
    /\ parser_out = NotCalled
    /\ parser_out' = custom_f_part_parser(f_part, string_part)
    /\ UNCHANGED <<f_part, string_part, pathVars, dedupVars, mainVars>>

SpecParser == InitParser /\ [][CallParser]_vars

(***************************************************************************)
(* Specification of one get_path_part call                                 *)
(***************************************************************************)
FieldVals == {<<>>, <<"x">>, <<"a", " ", "b", " ">>}
Roles == Chars(path_parts) \cup {"I", "a", ""}

\* "/" + "/".join(fs), closed by a final "/" or not
MakePath(fs, closed) ==
    <<"/">> \o Join(fs, "/") \o (IF closed THEN <<"/">> ELSE <<>>)

InitPath ==
    /\ \E n \in {6, 8} : fields \in [1..n -> FieldVals]
    /\ \E closed \in BOOLEAN : pathname = MakePath(fields, closed)
    /\ part \in Roles
    /\ part_out = NotCalled
    /\ ParserIdle /\ DedupIdle /\ MainIdle

CallGetPathPart ==
    /\ part_out = NotCalled
    /\ part_out' = get_path_part(pathname, part)
    /\ UNCHANGED <<fields, pathname, part, parserVars, dedupVars, mainVars>>

SpecPath == InitPath /\ [][CallGetPathPart]_vars

(***************************************************************************)
(* Specification of one remove_date call                                   *)
(***************************************************************************)
FLOW == <<"F", "L", "O", "W">>
E_1H == <<"1", "H">>
DedupVals == {<<>>, <<"1">>, <<"J">>, <<"J", "1">>}

\* /A/B/C/D/E/F/
DssPath(a, b, c, d, e, f) == MakePath(<<a, b, c, d, e, f>>, TRUE)

DedupCatalog == {DssPath(<<>>, b, FLOW, d, E_1H, f) : b \in DedupVals, d \in DedupVals, f \in DedupVals}

RECURSIVE ListsUpTo(_, _)
ListsUpTo(S, n) ==
    IF n = 0 THEN {<<>>}
    ELSE LET shorter == ListsUpTo(S, n - 1)
         IN  shorter \cup {Append(l, x) : l \in shorter, x \in S}

InitDedup ==
    /\ in_pathnames \in ListsUpTo(DedupCatalog, MaxDedupPaths)
    /\ dedup_out = [called |-> FALSE, list |-> <<>>]
    /\ ParserIdle /\ PathIdle /\ MainIdle

CallRemoveDate ==
    /\ ~dedup_out.called
    /\ \E o \in Orderings(remove_date_set(in_pathnames)) :
           dedup_out' = [called |-> TRUE, list |-> o]
    /\ UNCHANGED <<in_pathnames, parserVars, pathVars, mainVars>>

SpecDedup == InitDedup /\ [][CallRemoveDate]_vars

(***************************************************************************)
(* Specification of one invocation of main                                 *)
(***************************************************************************)
BUCKET == <<"b">>
OTHER_BUCKET == <<"c">>
PREFIX == <<"o", ".", "z">>
CONTEXT_Y == <<"Y">>

InputKeys ==
    { <<"a", ".", "d", "s", "s">>,
      <<"a", ".", "t", "x", "t">>,
      <<".", "d", "s", "s">>,
      <<"p", "/", "a", ".", "d", "s", "s", "/">> }

Required ==
    { [k \in {"dss_input_bucket", "dss_input_key", "zarr_output_bucket", "zarr_output_prefix"} |->
          CASE k = "dss_input_bucket" -> BUCKET
            [] k = "dss_input_key" -> key
            [] k = "zarr_output_bucket" -> out
            [] OTHER -> PREFIX]
      : key \in InputKeys, out \in {BUCKET, OTHER_BUCKET} }

\* the ways the optional parameters are supplied
OptionalParams ==
    { c @@ s @@ u @@ g :
        c \in {<<>>, [k \in {"c_part_variable"} |-> STAGE]},
        s \in {<<>>, [k \in {"simplify"} |-> STAGE]},
        u \in {<<>>, [k \in {"use_custom_parser"} |-> TRUE]},
        g \in {<<>>, [k \in {"sub_group_name"} |-> CONTEXT_Y]} }

ParamSets == {r @@ o : r \in Required, o \in OptionalParams}

CREDENTIALS == {"AWS_ACCESS_KEY_ID", "AWS_SECRET_ACCESS_KEY"}

\* the records a container may hold: pathname /A/B/C/D/E/F/, the position of
\* the block in time, and the block's values
Rec(a, b, c, d, f, n, v) ==
    [path |-> DssPath(a, b, c, d, <<"H">>, f), block |-> n, values |-> v]

F_Y_E == RUN_PREFIX \o <<"Y", "-", "E">>
F_Y_G == RUN_PREFIX \o <<"Y", "-", "G">>
F_Z_E == RUN_PREFIX \o <<"Z", "-", "E">>
F_PLAIN == <<"Y", " ", "E">>

Catalog ==
    { Rec(<<>>, <<"J">>, DEFAULT_C_PART, <<"1">>, F_Y_E, 1, <<10>>),
      Rec(<<>>, <<"J">>, DEFAULT_C_PART, <<"2">>, F_Y_E, 2, <<20>>),
      Rec(<<>>, <<"K">>, DEFAULT_C_PART, <<"1">>, F_Y_E, 1, <<30, 31>>),
      Rec(<<>>, <<"J">>, DEFAULT_C_PART, <<"1">>, F_Y_G, 1, <<40>>),
      Rec(<<"W">>, <<"J">>, DEFAULT_C_PART, <<"1">>, F_Y_E, 1, <<50>>),
      Rec(<<>>, <<"J">>, STAGE, <<"1">>, F_Y_E, 1, <<60>>),
      Rec(<<>>, <<"J">>, DEFAULT_C_PART, <<"1">>, F_PLAIN, 1, <<70>>),
      Rec(<<>>, <<"J">>, DEFAULT_C_PART, <<"1">>, F_Z_E, 1, <<80>>) }

Containers == {c \in SUBSET Catalog : Cardinality(c) <= MaxContainer}

\* exception classes a failing library call may raise
ExternalErrors == {"ValueError", "OSError"}

NoFailure == [kind |-> "none", cls |-> ""]

InitMain ==
    /\ pc = "buckets"
    /\ params \in ParamSets
    /\ environ \in SUBSET CREDENTIALS
    /\ stdout0 \in {"__stdout__", "host_stream"}
    /\ stdout = stdout0
    /\ effects = <<>> /\ logged = <<>>
    /\ outcome = "none" /\ failure = NoFailure
    /\ pattern = <<>> /\ out_var = <<>>
    /\ tmp_exists = FALSE
    /\ container = {} /\ pathnames = <<>> /\ reads = <<>> /\ dss_data = EmptyDict
    /\ ParserIdle /\ PathIdle /\ DedupIdle

idleVars == <<parserVars, pathVars, dedupVars>>
extractVars == <<tmp_exists, stdout, container, pathnames, reads, dss_data>>

\* an exception leaves main
RaiseFromMain(kind, cls) ==
    /\ outcome' = "raised"
    /\ failure' = [kind |-> kind, cls |-> cls]
    /\ pc' = "done"
    /\ UNCHANGED logged

\* except ...: logging.error(e); return
LogAndReturn(kind, cls) ==
    /\ outcome' = "returned_none"
    /\ failure' = [kind |-> kind, cls |-> cls]
    /\ logged' = Append(logged, cls)
    /\ pc' = "done"

\* if params["dss_input_bucket"] != params["zarr_output_bucket"]: raise
CheckBuckets ==
    /\ pc = "buckets"
    /\ IF params["dss_input_bucket"] # params["zarr_output_bucket"]
       THEN RaiseFromMain("config_bucket", "NotImplementedError") /\ UNCHANGED effects
       ELSE /\ effects' = Append(effects, "buckets_equal")
            /\ pc' = "credentials"
            /\ UNCHANGED <<outcome, failure, logged>>
    /\ UNCHANGED <<params, environ, stdout0, pattern, out_var, extractVars, idleVars>>

\* the two "not in os.environ" tests
CheckCredentials ==
    /\ pc = "credentials"
    /\ IF ~(CREDENTIALS \subseteq environ)
       THEN RaiseFromMain("config_credentials", "ValueError") /\ UNCHANGED effects
       ELSE /\ effects' = Append(effects, "credentials_present")
            /\ pc' = "suffix"
            /\ UNCHANGED <<outcome, failure, logged>>
    /\ UNCHANGED <<params, environ, stdout0, pattern, out_var, extractVars, idleVars>>

\* check_file_exists, first half: the suffix test
CheckSuffix ==
    /\ pc = "suffix"
    /\ IF ~HasDssSuffix(params["dss_input_key"])
       THEN LogAndReturn("preflight_suffix", "ValueError") /\ UNCHANGED effects
       ELSE /\ effects' = Append(effects, "suffix_ok")
            /\ pc' = "head_object"
            /\ UNCHANGED <<outcome, failure, logged>>
    /\ UNCHANGED <<params, environ, stdout0, pattern, out_var, extractVars, idleVars>>

\* check_file_exists, second half: head_object; then the pattern is built
HeadObject ==
    /\ pc = "head_object"
    /\ \E found \in BOOLEAN :
          IF ~found
          THEN /\ LogAndReturn("preflight_exists", "KeyError")
               /\ effects' = Append(effects, "head_object")
               /\ UNCHANGED <<pattern, out_var>>
          ELSE /\ effects' = effects \o <<"head_object", "object_exists">>
               /\ pattern' = PathnamePattern(c_part_variable(params))
               /\ out_var' = c_part_variable(params)
               /\ pc' = "tmpfile"
               /\ UNCHANGED <<outcome, failure, logged>>
    /\ UNCHANGED <<params, environ, stdout0, extractVars, idleVars>>

\* an exception leaves extract_data_from_dss through the with-block and
\* reaches the call site in main
FailExtraction(kind, cls) ==
    /\ tmp_exists' = TmpfileAfterExit(TRUE)
    /\ failure' = [kind |-> kind, cls |-> cls]
    /\ outcome' = ExtractHandler(use_custom_parser(params), cls)
    /\ logged' = IF ExtractHandler(use_custom_parser(params), cls) = "returned_none"
                 THEN Append(logged, cls) ELSE logged
    /\ pc' = "done"

\* with tempfile.NamedTemporaryFile(suffix=".dss", delete=True) as tmpfile
CreateTmpfile ==
    /\ pc = "tmpfile"
    /\ tmp_exists' = TRUE
    /\ effects' = Append(effects, "tmpfile")
    /\ pc' = "download"
    /\ UNCHANGED <<params, environ, stdout0, stdout, pattern, out_var, outcome, failure,
                   logged, container, pathnames, reads, dss_data, idleVars>>

\* fs.get(dss_key, local_dss_file_path)
Download ==
    /\ pc = "download"
    /\ effects' = Append(effects, "download")
    /\ \E ok \in BOOLEAN, cls \in ExternalErrors :
          IF ok
          THEN pc' = "list" /\ UNCHANGED <<tmp_exists, outcome, failure, logged>>
          ELSE FailExtraction("download", cls)
    /\ UNCHANGED <<params, environ, stdout0, stdout, pattern, out_var,
                   container, pathnames, reads, dss_data, idleVars>>

\* HecDss.Open, getPathnameList, remove_date
ListPathnames ==
    /\ pc = "list"
    /\ \E ok \in BOOLEAN, cls \in ExternalErrors, c \in Containers :
          IF ok
          THEN /\ container' = c
               /\ pathnames' \in Orderings(remove_date_set_of(getPathnameList(c, pattern)))
               /\ pc' = "loop"
               /\ UNCHANGED <<tmp_exists, outcome, failure, logged>>
          ELSE /\ FailExtraction("open", cls)
               /\ UNCHANGED <<container, pathnames>>
    /\ UNCHANGED <<params, environ, stdout0, stdout, pattern, out_var, effects,
                   reads, dss_data, idleVars>>

\* one turn of "for pathname in pathnames"
Iterate ==
    /\ pc = "loop"
    /\ Len(reads) < Len(pathnames)
    /\ LET pn == pathnames[Len(reads) + 1]
           f == get_path_part(pn, "F")
           b == get_path_part(pn, "B")
       IN  IF f.kind # "return" \/ b.kind # "return"
           THEN /\ FailExtraction("field", IF f.kind # "return" THEN f.kind ELSE b.kind)
                /\ UNCHANGED <<stdout, reads, dss_data>>
           ELSE \E ok \in BOOLEAN, cls \in ExternalErrors :
                  IF ~ok \/ RecordsAt(container, pn) = {}
                  THEN /\ stdout' = StdoutAfterRead(FALSE)
                       /\ FailExtraction("read", cls)
                       /\ UNCHANGED <<reads, dss_data>>
                  ELSE LET data == read_ts(container, pn)
                           ev == ResolveEventKey(use_custom_parser(params), f.val,
                                                 sub_group_name(params))
                       IN  /\ stdout' = StdoutAfterRead(TRUE)
                           /\ IF ev.kind # "return"
                              THEN /\ FailExtraction("parser", ev.kind)
                                   /\ UNCHANGED <<reads, dss_data>>
                              ELSE /\ dss_data' = InsertEntry(dss_data, ev.val, b.val, data)
                                   /\ reads' = Append(reads,
                                          [stem |-> pn, event |-> ev.val,
                                           element |-> b.val, data |-> data])
                                   /\ UNCHANGED <<tmp_exists, outcome, failure, logged, pc>>
    /\ UNCHANGED <<params, environ, stdout0, pattern, out_var, effects,
                   container, pathnames, idleVars>>

\* return dss_data, through the end of the with-block
ReturnData ==
    /\ pc = "loop"
    /\ Len(reads) = Len(pathnames)
    /\ tmp_exists' = TmpfileAfterExit(FALSE)
    /\ effects' = Append(effects, "extracted")
    /\ pc' = "assemble"
    /\ UNCHANGED <<params, environ, stdout0, stdout, pattern, out_var, outcome, failure,
                   logged, container, pathnames, reads, dss_data, idleVars>>

\* the event loop, xr.concat, xr.Dataset and the DataTree node
Assemble ==
    /\ pc = "assemble"
    /\ IF AssemblyFails(dss_data)
       THEN RaiseFromMain("assembly", "ValueError") /\ UNCHANGED effects
       ELSE /\ effects' = Append(effects, "assembled")
            /\ pc' = "write"
            /\ UNCHANGED <<outcome, failure, logged>>
    /\ UNCHANGED <<params, environ, stdout0, pattern, out_var, extractVars, idleVars>>

\* dt.to_zarr(..., "a") and the return of the result
WriteZarr ==
    /\ pc = "write"
    /\ effects' = Append(effects, "to_zarr")
    /\ \E ok \in BOOLEAN, cls \in ExternalErrors :
          IF ok
          THEN /\ outcome' = "returned_result"
               /\ pc' = "done"
               /\ UNCHANGED <<failure, logged>>
          ELSE RaiseFromMain("write", cls)
    /\ UNCHANGED <<params, environ, stdout0, pattern, out_var, extractVars, idleVars>>

NextMain ==
    \/ CheckBuckets
    \/ CheckCredentials
    \/ CheckSuffix
    \/ HeadObject
    \/ CreateTmpfile
    \/ Download
    \/ ListPathnames
    \/ Iterate
    \/ ReturnData
    \/ Assemble
    \/ WriteZarr

SpecMain == InitMain /\ [][NextMain]_vars

(***************************************************************************)
(* Claims about custom_f_part_parser                                       *)
(***************************************************************************)
Dashes(s) == {i \in 1..Len(s) : s[i] = "-"}

\* C1: for a context and a suffix without '-', the parser called with
\* "RUN:" + context + "-" + suffix and that context returns exactly the suffix.
C1_LiteralPrefixOnly ==
    \A suf \in SeqsUpTo(PartAlphabet, MaxBodyLen) :
        (/\ parser_out # NotCalled
         /\ f_part = RUN_PREFIX \o string_part \o <<"-">> \o suf)
        => parser_out = Return(suf)

\* C6: the text left after prefix removal has as many '-' as the F part. With a
\* number of '-' other than one the call raises the format error, whatever the
\* expected context; with exactly one it raises the mismatch error when the text
\* before the '-' differs from the expected context, and returns the text after
\* the '-' otherwise.
C6_ErrorClassification ==
    parser_out # NotCalled =>
        LET rest == StripRun(f_part)
            d == Dashes(rest)
        IN  IF Cardinality(Dashes(f_part)) # 1
            THEN parser_out = Raise("ValueError", "format")
            ELSE LET i == CHOOSE k \in d : TRUE
                 IN  IF SubSeq(rest, 1, i - 1) # string_part
                     THEN parser_out = Raise("ValueError", "mismatch")
                     ELSE parser_out = Return(DropTo(rest, i + 1))

\* the format error raised for an F part whose first part also fails to match
C6_Witness ==
    /\ parser_out = Raise("ValueError", "format")
    /\ Cardinality(Dashes(f_part)) = 2
    /\ StartsWith(f_part, RUN_PREFIX)
    /\ ~StartsWith(StripRun(f_part), string_part \o <<"-">>)

(***************************************************************************)
(* Claims about get_path_part                                              *)
(***************************************************************************)
Underscored(s) == [i \in 1..Len(s) |-> IF s[i] = " " THEN "_" ELSE s[i]]

\* C7: on a pathname of 8 fields, a role A..H yields the field at the role's
\* position with every space turned into an underscore; a role outside A..H
\* raises the invalid-role error, on any pathname.
C7_FieldExtraction ==
    part_out # NotCalled =>
        /\ (part \notin {"A", "B", "C", "D", "E", "F", "G", "H"}
                => part_out = Raise("ValueError", "part"))
        /\ \A k \in 1..8 :
               (Len(fields) = 8 /\ part = path_parts[k])
                   => part_out = Return(Underscored(fields[k]))

\* role H read from an 8-field pathname whose last field holds spaces
C7_Witness ==
    /\ part_out.kind = "return"
    /\ Len(fields) = 8 /\ part = "H"
    /\ " " \in Chars(fields[8])
    /\ "_" \in Chars(part_out.val)

(***************************************************************************)
(* Claims about remove_date                                                *)
(***************************************************************************)
\* p and q have the same number of fields and agree on all but the timestamp
DifferOnlyInPartD(p, q) ==
    LET fp == Split(p, "/")
        fq == Split(q, "/")
    IN  /\ Len(fp) = Len(fq)
        /\ fp[5] # fq[5]
        /\ \A i \in 1..Len(fp) : i # 5 => fp[i] = fq[i]

\* C2: two pathnames that differ only in the timestamp field collapse to a
\* single representative.
C2_CollapseToOne ==
    (/\ dedup_out.called
     /\ Len(in_pathnames) = 2
     /\ DifferOnlyInPartD(in_pathnames[1], in_pathnames[2]))
    => Len(dedup_out.list) = 1

(***************************************************************************)
(* Claims about main                                                       *)
(***************************************************************************)
Occurs(e) == \E i \in 1..Len(effects) : effects[i] = e

ConfigKinds == {"config_bucket", "config_credentials"}
PreflightKinds == {"preflight_suffix", "preflight_exists"}
ExtractionKinds == {"download", "open", "field", "read", "parser"}

\* C3: with c_part_variable supplied as V the pathname pattern is /*/*/V/*/*/*/
\* and the output variable is V; "FLOW" is used for both only when it is absent.
C3_VariableNameOption ==
    pattern # <<>> =>
        LET v == Get(params, "c_part_variable", DEFAULT_C_PART)
        IN  pattern = PathnamePattern(v) /\ out_var = v

\* C4 as stated: every pre-flight, extraction or assembly failure ends with the
\* error logged, nothing returned, no exception and no write.
C4_EveryFailureLoggedAndReturned ==
    (pc = "done" /\ failure.kind \in PreflightKinds \cup ExtractionKinds \cup {"assembly"})
    => /\ outcome = "returned_none"
       /\ logged # <<>>
       /\ ~Occurs("to_zarr")

\* C4 amended: a pre-flight failure, and in custom resolver mode an extraction
\* failure raised as ValueError (every parser-validation failure is one), is
\* logged and main returns nothing; every other failure - an extraction failure
\* in default mode or of another class in custom mode, an assembly failure, a
\* configuration error - leaves main as an exception, unlogged. None of them
\* is preceded by a write to the destination.
C4_FailureOutcome ==
    (pc = "done" /\ failure.kind \in ConfigKinds \cup PreflightKinds \cup ExtractionKinds \cup {"assembly"})
    => /\ ~Occurs("to_zarr")
       /\ IF \/ failure.kind \in PreflightKinds
             \/ /\ failure.kind \in ExtractionKinds
                /\ Get(params, "use_custom_parser", FALSE)
                /\ failure.cls = "ValueError"
          THEN outcome = "returned_none" /\ logged = <<failure.cls>>
          ELSE outcome = "raised" /\ logged = <<>>
       /\ failure.kind = "parser"
              => Get(params, "use_custom_parser", FALSE) /\ failure.cls = "ValueError"

\* a parser-validation failure in custom mode, logged and swallowed
C4_Witness ==
    /\ pc = "done"
    /\ failure.kind = "parser"
    /\ outcome = "returned_none"
    /\ logged = <<"ValueError">>

PassedChecks ==
    <<"buckets_equal", "credentials_present", "suffix_ok", "head_object", "object_exists">>

\* C5: the download and the destination write come only after the bucket
\* check, the credential check, the suffix check and the existence check have
\* passed in that order; the existence request is issued only for a key whose
\* suffix is ".dss"; the write happens at most once and only right after an
\* extraction and an assembly that ended without error.
C5_SideEffectOrder ==
    /\ \A i \in 1..Len(effects) :
           effects[i] \in {"tmpfile", "download", "to_zarr"}
               => /\ i > Len(PassedChecks)
                  /\ SubSeq(effects, 1, Len(PassedChecks)) = PassedChecks
                  /\ params["dss_input_bucket"] = params["zarr_output_bucket"]
                  /\ CREDENTIALS \subseteq environ
    /\ \A i \in 1..Len(effects) :
           effects[i] = "head_object"
               => /\ SubSeq(effects, 1, i - 1) = SubSeq(PassedChecks, 1, 3)
                  /\ PathSuffix(params["dss_input_key"]) = DSS_SUFFIX
    /\ failure.kind \in ConfigKinds \cup PreflightKinds
           => ~Occurs("download") /\ ~Occurs("to_zarr")
    /\ Cardinality({i \in 1..Len(effects) : effects[i] = "to_zarr"}) <= 1
    /\ \A i \in 1..Len(effects) :
           effects[i] = "to_zarr"
               => /\ i > 2
                  /\ effects[i - 1] = "assembled"
                  /\ effects[i - 2] = "extracted"
                  /\ failure.kind \in {"none", "write"}
                  /\ ~AssemblyFails(dss_data)

\* a complete invocation: all checks, the download and one write
C5_Witness ==
    /\ outcome = "returned_result"
    /\ Occurs("download")
    /\ Occurs("to_zarr")

(***************************************************************************)
(* Claims about extract_data_from_dss and read_dss_data                    *)
(***************************************************************************)
ExtractionExited == pc \in {"assemble", "write", "done"} /\ Occurs("tmpfile")

\* C8: once extract_data_from_dss has exited, by a return or by any failure,
\* the scratch file no longer exists.
C8_ScratchFileReleased == ExtractionExited => ~tmp_exists

\* the scratch file is gone after a failed series read
C8_Witness ==
    /\ ExtractionExited
    /\ failure.kind = "read"
    /\ ~tmp_exists

\* the (event key, element key) pair of the k-th iterated stem
StemKey(k) ==
    LET seg == Split(pathnames[k], "/")
        f == Underscored(seg[7])
        b == Underscored(seg[3])
    IN  <<IF Get(params, "use_custom_parser", FALSE)
          THEN custom_f_part_parser(f, Get(params, "sub_group_name", DEFAULT_SUB_GROUP)).val
          ELSE f,
          b>>

HasEntry(ev, el) == ev \in DOMAIN dss_data /\ el \in DOMAIN dss_data[ev]

\* C9: after a successful extraction the grouped dataset has an entry at
\* (event, element) exactly when some iterated stem resolves to that pair, and
\* the entry is the series read for the last such stem.
C9_Grouping ==
    Occurs("extracted") =>
        LET n == Len(pathnames)
            keys == {StemKey(k) : k \in 1..n}
        IN  /\ \A ev \in DOMAIN dss_data : \A el \in DOMAIN dss_data[ev] : <<ev, el>> \in keys
            /\ \A key \in keys :
                   /\ HasEntry(key[1], key[2])
                   /\ LET last == CHOOSE k \in 1..n :
                                      /\ StemKey(k) = key
                                      /\ \A j \in 1..n : StemKey(j) = key => j <= k
                      IN  dss_data[key[1]][key[2]] = read_ts(container, pathnames[last])

\* two iterated stems resolved to one pair and the extraction succeeded
C9_Witness ==
    /\ Occurs("extracted")
    /\ Len(pathnames) = 2
    /\ StemKey(1) = StemKey(2)
    /\ read_ts(container, pathnames[1]) # read_ts(container, pathnames[2])

\* C10: whenever read_dss_data has exited, by a return or by a failure, the
\* process-wide standard output is the stream it was before the call.
C10_StdoutRestored ==
    (reads # <<>> \/ failure.kind \in {"read", "parser"}) => stdout = stdout0

====
